---- MODULE Spec2Model ----
(***************************************************************************)
(* Model of src/main.py: the media assembly pipeline (script -> narration  *)
(* -> mixed audio -> format decision -> slides -> video -> thumbnail ->    *)
(* description/tags -> upload).                                            *)
(*                                                                         *)
(* Durations are integers in milliseconds (4.0 s = 4000).  A script is the *)
(* sequence of its "."-separated segments: segment value 0 is a segment    *)
(* that is empty after strip(), a positive value is the text of a          *)
(* sentence.  An LLM response used for description/tags is a sequence of   *)
(* tokens.                                                                 *)
(***************************************************************************)
EXTENDS Integers, Sequences, FiniteSets, TLC

VARIABLES
    pc,               \* <<stage, lang>>: the statement of pipeline() about to run
    error,            \* "none", or the exception that left pipeline()
    prefer_vertical,  \* pipeline() parameter
    script,           \* lang -> script returned by llm_generate (<<>> = not yet)
    sentences,        \* lang -> split_script_into_sentences(script)
    voice,            \* lang -> duration of the narration file (0 = not written)
    candidates,       \* list(BACKGROUND_MUSIC_DIR.glob("*.mp3")), as durations
    bg_music,         \* duration of the chosen music file (0 = None)
    music_duration,   \* lang -> duration the music was looped to (0 = not yet)
    mix,              \* lang -> duration of the mixed audio file (0 = not written)
    is_shorts,        \* <<>> while unassigned, then <<b>>, b returned by detect_shorts
    slides,           \* lang -> list of clips built by build_slides_from_script
    built,            \* lang -> TRUE once build_slides_from_script returned
    concatenated,     \* lang -> result of concatenate_videoclips (<<>> = none)
    video,            \* lang -> exported video (<<>> = none)
    meta,             \* lang -> <<description, tags>> (<<>> = none)
    channel_key_name, \* pipeline() parameter, "unset" until line 458 reads it
    uploads,          \* the bundles handed to upload_to_youtube, in order
    files,            \* names of the files written so far
    calls             \* <<operation, lang>> calls made so far on media objects

vars == <<pc, error, prefer_vertical, script, sentences, voice, candidates,
          bg_music, music_duration, mix, is_shorts, slides, built,
          concatenated, video, meta, channel_key_name, uploads, files, calls>>

Langs == {"en", "hi"}

\* ---------------------------------------------------------------- bounds
MaxSentences == 3

\* ------------------------------------------------------ program constants
SLIDE_DURATION == 4000
TOLERANCE == 500
MUSIC_BUFFER == 2000
SHORTS_CEILING == 60000
VERTICAL_W == 720
VERTICAL_H == 1280
HORIZONTAL_W == 1280
HORIZONTAL_H == 720

\* ------------------------------------------------------------ input sets
\* Scripts the text-generation service may return: k sentences "1. 2. ... k",
\* with or without a final "." (which leaves a blank last segment); k = 0
\* with a blank segment is the empty script.
Scripts ==
    { [i \in 1..k |-> i] \o <<0>> : k \in 0..MaxSentences }
      \cup { [i \in 1..k |-> i] : k \in 1..MaxSentences }

NarrationDurations ==
    [en |-> {10000, 12000, 43000, 58000, 58001, 88000},
     hi |-> {10000, 20000, 88000}]

MusicDurations == {5000, 50000}

\* Responses of the text-generation service to the description/tags prompt,
\* as token sequences: no marker and no comma; a comma-separated last line;
\* an upper-case TAGS marker; a lower-case "tags" only
MetaResponses ==
    { <<"x", "\n", "y">>,
      <<"x", "\n", "x", ",", " ", "y", "\n">>,
      <<"x", "\n", "TAGS", ":", " ", "x", ",", "y", "\n", "y">>,
      <<"tags", " ", "x">> }

ChannelNames == {"channel_a", "channel_b", "channel_x"}

\* keys of CHANNEL_MAPPING
CHANNEL_MAPPING == {"channel_a", "channel_b"}

\* ------------------------------------------------------------- helpers
Max(a, b) == IF a >= b THEN a ELSE b

Abs(x) == IF x >= 0 THEN x ELSE 0 - x

RECURSIVE SumDuration(_)
SumDuration(clips) ==
    IF clips = <<>> THEN 0
    ELSE Head(clips).duration + SumDuration(Tail(clips))

\* split_script_into_sentences: the non-blank segments, in order
split_script_into_sentences(s) == SelectSeq(s, LAMBDA seg : seg # 0)

\* detect_shorts
detect_shorts_lt(video_duration, target_vertical) ==
    IF target_vertical THEN TRUE ELSE video_duration < SHORTS_CEILING

detect_shorts(video_duration, target_vertical) ==
    IF target_vertical THEN TRUE ELSE video_duration <= SHORTS_CEILING

\* combine_audio_with_music, line 198: the duration the music is looped to
looped_music_duration_noloop(voice_d, music_d) == music_d

looped_music_duration(voice_d, music_d) == Max(voice_d + MUSIC_BUFFER, music_d)

\* CompositeAudioClip([final_music, voice]).duration: the latest end
mixed_duration(voice_d, music_d) ==
    Max(looped_music_duration(voice_d, music_d), voice_d)

\* audio_path_to_duration (called at line 429; its definition is not in the
\* source file): the duration of the audio file at the path
audio_path_to_duration(l) == mix[l]

\* ------------------------------------------------------------------ Init
Init ==
    /\ pc = <<"script", "en">>
    /\ error = "none"
    /\ prefer_vertical \in BOOLEAN
    /\ script = [l \in Langs |-> <<>>]
    /\ sentences = [l \in Langs |-> <<>>]
    /\ voice = [l \in Langs |-> 0]
    /\ candidates = <<>>
    /\ bg_music = 0
    /\ music_duration = [l \in Langs |-> 0]
    /\ mix = [l \in Langs |-> 0]
    /\ is_shorts = <<>>
    /\ slides = [l \in Langs |-> <<>>]
    /\ built = [l \in Langs |-> FALSE]
    /\ concatenated = [l \in Langs |-> <<>>]
    /\ video = [l \in Langs |-> <<>>]
    /\ meta = [l \in Langs |-> <<>>]
    /\ channel_key_name = "unset"
    /\ uploads = <<>>
    /\ files = {}
    /\ calls = {}

\* the statement after <<stage, l>> when the stage is run for "en" then "hi"
After(l, nextStage) == IF l = "en" THEN <<pc[1], "hi">> ELSE <<nextStage, "en">>

Raise(exc) == /\ pc' = <<"failed", pc[2]>>
              /\ error' = exc

\* lines 401-407: llm_generate for the script, then (pure) the sentence split
gen_script(l) ==
    /\ pc = <<"script", l>>
    /\ \/ /\ \E s \in Scripts :
               /\ script' = [script EXCEPT ![l] = s]
               /\ sentences' = [sentences EXCEPT ![l] = split_script_into_sentences(s)]
          /\ pc' = After(l, "tts")
          /\ UNCHANGED error
       \/ /\ Raise("LLMError")
          /\ UNCHANGED <<script, sentences>>
    /\ UNCHANGED <<prefer_vertical, voice, candidates, bg_music, music_duration,
                   mix, is_shorts, slides, built, concatenated, video, meta, channel_key_name, uploads,
                   files, calls>>

\* lines 411-413: tts_generate writes working_dir/voice_<l>.mp3
tts_generate(l) ==
    /\ pc = <<"tts", l>>
    /\ \/ /\ \E d \in NarrationDurations[l] :
               voice' = [voice EXCEPT ![l] = d]
          /\ files' = files \cup {<<"voice", l>>}
          /\ pc' = After(l, "music")
          /\ UNCHANGED error
       \/ /\ Raise("TTSError")
          /\ UNCHANGED <<voice, files>>
    /\ UNCHANGED <<prefer_vertical, script, sentences, candidates, bg_music,
                   music_duration, mix, is_shorts, slides, built, concatenated,
                   video, meta, channel_key_name, uploads, calls>>

\* lines 416-422: first mp3 of BACKGROUND_MUSIC_DIR, FileNotFoundError if none
choose_music_cleanup ==
    /\ pc = <<"music", "en">>
    /\ \E c \in {<<>>} \cup {<<m>> : m \in MusicDurations} :
         /\ candidates' = c
         /\ IF c # <<>>
            THEN /\ bg_music' = c[1]
                 /\ pc' = <<"mix", "en">>
                 /\ UNCHANGED <<error, files>>
            ELSE /\ bg_music' = 0
                 /\ Raise("FileNotFoundError")
                 /\ files' = {}
    /\ UNCHANGED <<prefer_vertical, script, sentences, voice, music_duration,
                   mix, is_shorts, slides, built, concatenated, video, meta, channel_key_name, uploads,
                   calls>>

choose_music ==
    /\ pc = <<"music", "en">>
    /\ \E c \in {<<>>} \cup {<<m>> : m \in MusicDurations} :
         /\ candidates' = c
         /\ IF c # <<>>
            THEN /\ bg_music' = c[1]
                 /\ pc' = <<"mix", "en">>
                 /\ UNCHANGED error
            ELSE /\ bg_music' = 0
                 /\ Raise("FileNotFoundError")
    /\ UNCHANGED <<prefer_vertical, script, sentences, voice, music_duration,
                   mix, is_shorts, slides, built, concatenated, video, meta, channel_key_name, uploads,
                   files, calls>>

\* lines 425-426: combine_audio_with_music writes working_dir/mix_<l>.mp3
combine_audio_with_music(l) ==
    /\ pc = <<"mix", l>>
    /\ music_duration' =
         [music_duration EXCEPT ![l] = looped_music_duration(voice[l], bg_music)]
    /\ mix' = [mix EXCEPT ![l] = mixed_duration(voice[l], bg_music)]
    /\ files' = files \cup {<<"mix", l>>}
    /\ pc' = After(l, "detect")
    /\ UNCHANGED <<error, prefer_vertical, script, sentences, voice, candidates,
                   bg_music, is_shorts, slides, built, concatenated, video, meta, channel_key_name, uploads,
                   calls>>

\* line 429: is_shorts = detect_shorts(audio_path_to_duration(combined_en), ...)
detect ==
    /\ pc = <<"detect", "en">>
    /\ is_shorts' = <<detect_shorts(audio_path_to_duration("en"), prefer_vertical)>>
    /\ pc' = <<"slides", "en">>
    /\ UNCHANGED <<error, prefer_vertical, script, sentences, voice, candidates,
                   bg_music, music_duration, mix, slides, built, concatenated,
                   video, meta, channel_key_name, uploads, files, calls>>

\* lines 152-182: one ImageClip per sentence, in order, each of slide_duration;
\* the canvas is `resolution` unless vertical, and then 720x1280
slides_from_script_reversed(script_sentences, slide_duration, resolution, vertical) ==
    [i \in 1..Len(script_sentences) |->
        [sentence  |-> script_sentences[Len(script_sentences) + 1 - i],
         duration  |-> slide_duration,
         _duration |-> <<>>,
         w |-> IF vertical THEN VERTICAL_W ELSE resolution[1],
         h |-> IF vertical THEN VERTICAL_H ELSE resolution[2]]]

slides_from_script(script_sentences, slide_duration, resolution, vertical) ==
    [i \in 1..Len(script_sentences) |->
        [sentence  |-> script_sentences[i],
         duration  |-> slide_duration,
         _duration |-> <<>>,
         w |-> IF vertical THEN VERTICAL_W ELSE resolution[1],
         h |-> IF vertical THEN VERTICAL_H ELSE resolution[2]]]

\* the resolution argument of lines 432, 435, 439, 442
Resolution == IF prefer_vertical THEN <<VERTICAL_W, VERTICAL_H>>
              ELSE <<HORIZONTAL_W, HORIZONTAL_H>>

\* lines 431-436: slides_<l> = build_slides_from_script(sentences_<l>, ...,
\* slide_duration=4.0, resolution=..., vertical=prefer_vertical)
build_slides_from_script(l) ==
    /\ pc = <<"slides", l>>
    /\ slides' = [slides EXCEPT ![l] =
         slides_from_script(sentences[l], SLIDE_DURATION, Resolution, prefer_vertical)]
    /\ built' = [built EXCEPT ![l] = TRUE]
    /\ pc' = IF l = "en" THEN <<"slides", "hi">> ELSE <<"concat", "en">>
    /\ UNCHANGED <<error, prefer_vertical, script, sentences, voice, candidates,
                   bg_music, music_duration, mix, is_shorts, concatenated, video,
                   meta, channel_key_name, uploads, files, calls>>

\* concatenate_videoclips(slides, method="compose") of a non-empty list: the
\* clips in order, duration the sum of clip.duration, size the largest w and h
RECURSIVE MaxOf(_, _)
MaxOf(clips, f) ==
    IF clips = <<>> THEN 0
    ELSE Max(Head(clips)[f], MaxOf(Tail(clips), f))

concatenate_videoclips(clips) ==
    [duration |-> SumDuration(clips),
     order    |-> [i \in 1..Len(clips) |-> clips[i].sentence],
     w        |-> MaxOf(clips, "w"),
     h        |-> MaxOf(clips, "h")]

\* build_video_from_slides_and_audio, lines 225-228: the first concatenation.
\* The code tests nothing before it.  On an empty list the library call either
\* raises (ValueError), or returns a clip of duration 0 and lets line 230 run.
build_video_concat(l) ==
    /\ pc = <<"concat", l>>
    /\ calls' = calls \cup {<<"concatenate", l>>}
    /\ \/ /\ slides[l] # <<>>
          /\ concatenated' = [concatenated EXCEPT ![l] = concatenate_videoclips(slides[l])]
          /\ pc' = <<"reconcile", l>>
          /\ UNCHANGED error
       \/ /\ slides[l] = <<>>
          /\ Raise("ValueError")
          /\ UNCHANGED concatenated
       \/ /\ slides[l] = <<>>
          /\ concatenated' = [concatenated EXCEPT ![l] = concatenate_videoclips(slides[l])]
          /\ pc' = <<"reconcile", l>>
          /\ UNCHANGED error
    /\ UNCHANGED <<prefer_vertical, script, sentences, voice, candidates, bg_music,
                   music_duration, mix, is_shorts, slides, built, video, meta,
                   channel_key_name, uploads, files>>

\* lines 234-235: clip._duration = clip.duration * scale, scale = audio / video.
\* The attribute written is _duration; clip.duration is not assigned.
scale_clips(clips, audio_duration, video_duration) ==
    [i \in 1..Len(clips) |->
        [clips[i] EXCEPT !._duration =
            <<(clips[i].duration * audio_duration) \div video_duration>>]]

\* lines 229-236: rescale when slides and audio differ by more than 0.5 s,
\* then concatenate again
build_video_reconcile(l) ==
    /\ pc = <<"reconcile", l>>
    /\ LET video_duration == SumDuration(slides[l])
           audio_duration == mix[l]
       IN  IF Abs(video_duration - audio_duration) > TOLERANCE
           THEN IF video_duration = 0
                THEN /\ Raise("ZeroDivisionError")
                     /\ UNCHANGED <<slides, concatenated, calls>>
                ELSE /\ slides' = [slides EXCEPT ![l] =
                            scale_clips(slides[l], audio_duration, video_duration)]
                     /\ concatenated' = [concatenated EXCEPT ![l] =
                            concatenate_videoclips(slides'[l])]
                     /\ calls' = calls \cup {<<"scale", l>>}
                     /\ pc' = <<"export", l>>
                     /\ UNCHANGED error
           ELSE /\ pc' = <<"export", l>>
                /\ UNCHANGED <<error, slides, concatenated, calls>>
    /\ UNCHANGED <<prefer_vertical, script, sentences, voice, candidates, bg_music,
                   music_duration, mix, is_shorts, built, video, meta,
                   channel_key_name, uploads, files>>

Min(a, b) == IF a <= b THEN a ELSE b

\* clip.resize(height=h): the width follows the aspect ratio
resize_height(c, newh) == [c EXCEPT !.w = (c.w * newh) \div c.h, !.h = newh]

\* clip.crop(x_center, y_center, width, height)
crop(c, width, height) == [c EXCEPT !.w = Min(c.w, width), !.h = Min(c.h, height)]

\* lines 238-251: attach the audio, fit the frame to the format, write the file
build_video_export(l) ==
    /\ pc = <<"export", l>>
    /\ LET final == IF is_shorts[1]
                    THEN crop(resize_height(concatenated[l], VERTICAL_H),
                              VERTICAL_W, VERTICAL_H)
                    ELSE resize_height(concatenated[l], HORIZONTAL_H)
       IN  video' = [video EXCEPT ![l] =
                [duration |-> final.duration, order |-> final.order,
                 w |-> final.w, h |-> final.h,
                 audio |-> mix[l], is_shorts |-> is_shorts[1]]]
    /\ files' = files \cup {<<"final", l>>}
    /\ calls' = calls \cup {<<"set_audio", l>>, <<"write_videofile", l>>}
    /\ pc' = IF l = "en" THEN <<"concat", "hi">> ELSE <<"thumbnail", "en">>
    /\ UNCHANGED <<error, prefer_vertical, script, sentences, voice, candidates,
                   bg_music, music_duration, mix, is_shorts, slides, built,
                   concatenated, meta, channel_key_name, uploads>>

\* lines 446-449: generate_thumbnail writes working_dir/thumbnail.jpg
generate_thumbnail ==
    /\ pc = <<"thumbnail", "en">>
    /\ files' = files \cup {<<"thumbnail", "both">>}
    /\ pc' = <<"meta", "en">>
    /\ UNCHANGED <<error, prefer_vertical, script, sentences, voice, candidates,
                   bg_music, music_duration, mix, is_shorts, slides, built,
                   concatenated, video, meta, channel_key_name, uploads, calls>>

\* ---- text helpers for generate_description_and_tags (token sequences)
Whitespace == {" ", "\n"}

Contains(s, tok) == \E i \in 1..Len(s) : s[i] = tok

FirstIndex(s, tok) == CHOOSE i \in 1..Len(s) :
                          /\ s[i] = tok
                          /\ \A j \in 1..(i - 1) : s[j] # tok

\* str.strip()
RECURSIVE Strip(_)
Strip(s) ==
    IF s = <<>> THEN s
    ELSE IF Head(s) \in Whitespace THEN Strip(Tail(s))
    ELSE IF s[Len(s)] \in Whitespace THEN Strip(SubSeq(s, 1, Len(s) - 1))
    ELSE s

\* str.split(sep): always at least one piece
RECURSIVE Split(_, _)
Split(s, sep) ==
    IF ~Contains(s, sep) THEN <<s>>
    ELSE LET i == FirstIndex(s, sep)
         IN  <<SubSeq(s, 1, i - 1)>> \o Split(SubSeq(s, i + 1, Len(s)), sep)

\* str.splitlines() of a stripped string: no line of an empty string
SplitLines(s) == IF s = <<>> THEN <<>> ELSE Split(s, "\n")

\* str.replace(tok, "")
Remove(s, tok) == SelectSeq(s, LAMBDA t : t # tok)

\* str.replace(old, new), token for token
Replace(s, old, new) == [i \in 1..Len(s) |-> IF s[i] = old THEN new ELSE s[i]]

\* [t.strip() for t in part.split(",") if t.strip()]
RECURSIVE StripAll(_)
StripAll(pieces) ==
    IF pieces = <<>> THEN <<>>
    ELSE <<Strip(Head(pieces))>> \o StripAll(Tail(pieces))

CommaTags(part) == SelectSeq(StripAll(Split(part, ",")), LAMBDA t : t # <<>>)

\* lines 298-308: "TAGS" in out.upper(); out.split("TAGS", 1)[1] raises
\* IndexError (caught, tags = []) when only a lower-case marker is there
MarkerTags(out) ==
    IF Contains(out, "TAGS") \/ Contains(out, "tags")
    THEN IF Contains(out, "TAGS")
         THEN LET i == FirstIndex(out, "TAGS")
                  tag_part == Replace(Remove(SubSeq(out, i + 1, Len(out)), ":"),
                                      "\n", " ")
              IN  CommaTags(tag_part)
         ELSE <<>>
    ELSE <<>>

\* lines 310-315: the last line, when it holds a comma
LastLineTags(out) ==
    LET lines == SplitLines(Strip(out))
    IN  IF Len(lines) > 0 /\ Contains(lines[Len(lines)], ",")
        THEN CommaTags(lines[Len(lines)])
        ELSE <<>>

\* lines 295-317: (description, tags) parsed from the response
parse_description_and_tags(out) ==
    LET tags == MarkerTags(out)
    IN  <<Strip(out), IF tags = <<>> THEN LastLineTags(out) ELSE tags>>

\* lines 452-455: generate_description_and_tags; an exception of llm_generate
\* (line 294) is caught neither there nor in pipeline()
generate_description_and_tags(l) ==
    /\ pc = <<"meta", l>>
    /\ \/ /\ \E out \in MetaResponses :
               meta' = [meta EXCEPT ![l] = parse_description_and_tags(out)]
          /\ pc' = IF l = "en" THEN <<"meta", "hi">> ELSE <<"channel", "en">>
          /\ UNCHANGED error
       \/ /\ Raise("LLMError")
          /\ UNCHANGED meta
    /\ UNCHANGED <<prefer_vertical, script, sentences, voice, candidates, bg_music,
                   music_duration, mix, is_shorts, slides, built, concatenated,
                   video, channel_key_name, uploads, files, calls>>

\* lines 458-460: channel_key = CHANNEL_MAPPING.get(channel_key_name)
lookup_channel ==
    /\ pc = <<"channel", "en">>
    /\ \E name \in ChannelNames :
         /\ channel_key_name' = name
         /\ IF name \in CHANNEL_MAPPING
            THEN pc' = <<"upload", "en">> /\ UNCHANGED error
            ELSE Raise("RuntimeError")
    /\ UNCHANGED <<prefer_vertical, script, sentences, voice, candidates, bg_music,
                   music_duration, mix, is_shorts, slides, built, concatenated,
                   video, meta, uploads, files, calls>>

\* lines 463-464: (script.splitlines()[0] if script else topic_prompt)[:100];
\* the empty script falls back to the topic prompt
title_of(s) == IF s = <<0>> THEN <<"topic_prompt">> ELSE <<"first_line", s>>

\* lines 466-469: upload_to_youtube(video_en, ...) raises NotImplementedError,
\* which pipeline() catches; the function ends there, with no call for the
\* Hindi video
upload_to_youtube ==
    /\ pc = <<"upload", "en">>
    /\ uploads' = Append(uploads,
          [lang |-> "en", video |-> video["en"], title |-> title_of(script["en"]),
           description |-> meta["en"][1],
           tags |-> meta["en"][2], thumbnail |-> <<"thumbnail", "both">> \in files,
           channel |-> channel_key_name, is_shorts |-> is_shorts[1]])
    /\ pc' = <<"done", "en">>
    /\ UNCHANGED <<error, prefer_vertical, script, sentences, voice, candidates,
                   bg_music, music_duration, mix, is_shorts, slides, built,
                   concatenated, video, meta, channel_key_name, files, calls>>

Next ==
    \/ \E l \in Langs : gen_script(l)
    \/ \E l \in Langs : tts_generate(l)
    \/ choose_music
    \/ \E l \in Langs : combine_audio_with_music(l)
    \/ detect
    \/ \E l \in Langs : build_slides_from_script(l)
    \/ \E l \in Langs : build_video_concat(l)
    \/ \E l \in Langs : build_video_reconcile(l)
    \/ \E l \in Langs : build_video_export(l)
    \/ generate_thumbnail
    \/ \E l \in Langs : generate_description_and_tags(l)
    \/ lookup_channel
    \/ upload_to_youtube

Spec == Init /\ [][Next]_vars
\* ------------------------------------------------------------ the claims
Exported(l) == video[l] # <<>>

Reconciled(l) == pc = <<"export", l>> \/ Exported(l)

\* C1: for every variant whose video was assembled, the video's duration is
\* within 0.5 s of that variant's narration duration (3 frames of 4.0 s and a
\* 12.0 s narration: no rescaling, a video of about 12.0 s).
C1_VideoMatchesNarration ==
    \A l \in Langs :
        Exported(l) =>
            /\ Abs(video[l].duration - voice[l]) <= TOLERANCE
            /\ (Len(slides[l]) = 3 /\ voice[l] = 12000) => <<"scale", l>> \notin calls

\* C2: after the reconciliation step the sum of the frame durations is within
\* 0.5 s of the mixed audio's duration.
C2_ReconciledSumMatchesTarget ==
    \A l \in Langs :
        Reconciled(l) => Abs(SumDuration(slides[l]) - mix[l]) <= TOLERANCE

\* C3: the format decision is short-form iff the duration passed to
\* detect_shorts is <= 60 s or vertical framing was requested.
C3_ShortFormIff ==
    is_shorts # <<>> =>
        (is_shorts[1] <=> (audio_path_to_duration("en") <= 60000 \/ prefer_vertical))

C3_Witness ==
    /\ is_shorts = <<TRUE>>
    /\ audio_path_to_duration("en") = 90000
    /\ prefer_vertical

\* C4: the format decision is taken before the storyboard is composed, and the
\* storyboard has the decision's geometry: 720x1280 frames when short-form,
\* 1280x720 frames when long-form.
C4_StoryboardHasDecidedGeometry ==
    \A l \in Langs :
        built[l] =>
            /\ is_shorts # <<>>
            /\ \A i \in 1..Len(slides[l]) :
                 <<slides[l][i].w, slides[l][i].h>> =
                    IF is_shorts[1] THEN <<720, 1280>> ELSE <<1280, 720>>

\* C5: with an empty sentence list the storyboard is empty and the run stops
\* with an empty-storyboard error before any assembly operation (such as the
\* concatenation) is performed on the storyboard.
C5_EmptyStoryboardStopsBeforeAssembly ==
    \A l \in Langs :
        (built[l] /\ sentences[l] = <<>>) =>
            /\ slides[l] = <<>>
            /\ <<"concatenate", l>> \notin calls
            /\ (pc = <<"failed", l>> => error = "EmptyStoryboardError")

\* C6: combine_audio_with_music extends the music to at least narration + 2 s,
\* and the mixed track, the longer of narration and extended music, lasts at
\* least as long as the narration.
C6_MixCoversNarration ==
    \A l \in Langs :
        mix[l] # 0 =>
            /\ music_duration[l] >= voice[l] + 2000
            /\ mix[l] = Max(voice[l], music_duration[l])
            /\ mix[l] >= voice[l]

C6_Witness ==
    /\ mix["hi"] # 0
    /\ bg_music < voice["hi"]
    /\ mix["en"] = bg_music

\* the sentence of each frame, in frame order
FrameSentences(clips) == [i \in 1..Len(clips) |-> clips[i].sentence]

\* C7: from composition to assembly the storyboard has one frame per sentence,
\* the i-th built from the i-th sentence; reconciliation changes neither the
\* number nor the order of the frames, only a duration.
C7_FramesFollowSentences ==
    /\ [](\A l \in Langs :
            /\ built[l] => FrameSentences(slides[l]) = sentences[l]
            /\ concatenated[l] # <<>> => concatenated[l].order = sentences[l]
            /\ Exported(l) => video[l].order = sentences[l])
    /\ [][\A l \in Langs :
            pc = <<"reconcile", l>> =>
                /\ Len(slides'[l]) = Len(slides[l])
                /\ \A i \in 1..Len(slides[l]) :
                     /\ slides'[l][i].sentence = slides[l][i].sentence
                     /\ slides'[l][i].w = slides[l][i].w
                     /\ slides'[l][i].h = slides[l][i].h]_vars

C7_Witness ==
    /\ Exported("hi")
    /\ Len(sentences["hi"]) >= 2
    /\ <<"scale", "hi">> \in calls
    /\ FrameSentences(slides["hi"]) = sentences["hi"]

\* C8: the Hindi variant's format decision does not depend on the English
\* narration: with any other English narration duration (same Hindi inputs,
\* music and flag) the run gives the Hindi video the same decision.
C8_HindiIndependentOfEnglish ==
    Exported("hi") =>
        \A d \in NarrationDurations["en"] :
            detect_shorts(mixed_duration(d, bg_music), prefer_vertical)
                = video["hi"].is_shorts

NoArtifactsAfterNarration ==
    /\ \A l \in Langs :
         /\ mix[l] = 0
         /\ ~built[l]
         /\ concatenated[l] = <<>>
         /\ video[l] = <<>>
         /\ meta[l] = <<>>
    /\ uploads = <<>>
    /\ files = {<<"voice", "en">>, <<"voice", "hi">>}

\* C9: with no background music the run ends in a missing-asset failure that
\* is not retried: nothing is produced after the narration, the narration
\* files stay in the working directory, and a run that goes on had music.
C9_MissingMusicIsFatal ==
    /\ [](/\ error = "FileNotFoundError" =>
               (pc[1] = "failed" /\ candidates = <<>> /\ NoArtifactsAfterNarration)
          /\ pc[1] \notin {"script", "tts", "music", "failed"} => candidates # <<>>)
    /\ [][pc[1] # "failed"]_vars

C9_Witness ==
    /\ error = "FileNotFoundError"
    /\ pc[1] = "failed"
    /\ <<"voice", "hi">> \in files

\* C10: a failure of metadata generation never aborts the run: the run is
\* never left failed by the text-generation service once the videos exist.
C10_MetadataFailureNeverAborts ==
    ~(pc[1] = "failed" /\ error = "LLMError" /\ Exported("hi"))

\* the variants whose bundle was handed to upload_to_youtube
Handed == {uploads[i].lang : i \in 1..Len(uploads)}

\* C11: in a run in which every stage succeeded, each variant's bundle has been
\* handed to the publish boundary by the end of the run, and a bundle is handed
\* over only once its video, the thumbnail and its metadata exist.
C11_EveryBundleHandedOver ==
    /\ (pc[1] = "done" /\ error = "none") => Handed = Langs
    /\ \A i \in 1..Len(uploads) :
         /\ uploads[i].video # <<>>
         /\ uploads[i].video = video[uploads[i].lang]
         /\ uploads[i].thumbnail
         /\ meta[uploads[i].lang] # <<>>

====
